---- MODULE Spec2Model ----
(***************************************************************************)
(* Icon cache of colibri (src/colibri/src/api/icons.rs): the get_icon and  *)
(* check_icon handlers, the fallback chain own -> collection ->            *)
(* underlying, the negative cache of zero-length files, and the           *)
(* deduplication of remote queries through active_tasks.                  *)
(*                                                                         *)
(* Every handler is a process that advances one await at a time, so that  *)
(* handlers and spawned query tasks interleave as they do on the tokio    *)
(* runtime.  The collaborators that live outside icons.rs (icons::*,      *)
(* the global db) are modelled from the specification.                    *)
(***************************************************************************)
EXTENDS Integers, Sequences, FiniteSets, TLC

\* ---------------------------------------------------------------- bounds
NumCalls == 2
MaxTicks == 1

\* ------------------------------------------------------------- constants
HOUR_IN_SECS == 60 * 60
MAX_ICON_RECHECK_PERIOD == HOUR_IN_SECS * 12
QUERY_ICONS_TASK_PREFIX == "query_icons"

\* The clock advances in steps of the recheck period: a zero-length file is
\* seen at the age 0 and at the ages 12h (exactly the boundary) and beyond.
TickSecs == MAX_ICON_RECHECK_PERIOD

\* Option<T>: None is the empty sequence, Some(v) a one-element sequence.
None == <<>>
Some(v) == <<v>>

Procs == 1..NumCalls
\* X is the asset with relations (a collection, an underlying token); Y is
\* the plain asset that X may wrap.
AssetIds == {"X", "Y"}
\* The requests of the model ask for X.
RequestIds == {"X"}
\* A cache path is identified with the key it encodes (the encoding is
\* lossless): "C" is the path of the collection's main asset.
Paths == {"X", "C", "Y"}
Contents == {<<1>>, <<2>>}

OK == "Ok"
NOT_MODIFIED == "NotModified"
NOT_FOUND == "NotFound"
ACCEPTED == "Accepted"
INTERNAL_SERVER_ERROR == "InternalError"

VARIABLES files, now, globaldb, active_tasks, tasks, calls
vars == <<files, now, globaldb, active_tasks, tasks, calls>>

\* ------------------------------------------------------------ filesystem
\* mtime is kept for zero-length files only: icons.rs reads the
\* modification time of no other file.
NoFile == [exists |-> FALSE, data |-> <<>>, mtime |-> 0]
Marker(t) == [exists |-> TRUE, data |-> <<>>, mtime |-> t]
Icon(c) == [exists |-> TRUE, data |-> c, mtime |-> 0]

\* ----------------------------------------------------------- collaborators
get_asset_path(asset_id, use_collection) ==
    IF use_collection THEN globaldb.collection[asset_id] ELSE asset_id

find_icon(path) == IF files[path].exists THEN Some(path) ELSE None

md5_hash(data) ==
    CASE data = <<1>> -> "55a54008"
      [] data = <<2>> -> "9e688c58"
      [] OTHER -> "d41d8cd9"

to_lowercase(s) == IF s = "55A54008" THEN "55a54008" ELSE s

MatchHeaders == {None, Some("55a54008"), Some("55A54008"), Some("wrong")}

Response(status, headers, bytes) ==
    [status |-> status, headers |-> headers, bytes |-> bytes]

NoResponse == Response("", None, None)

\* icons::get_icon, the content responder: probe, read, fingerprint, compare.
icons_get_icon(path, match_header, io_error) ==
    LET f == files[path] IN
    IF ~f.exists \/ Len(f.data) = 0 THEN Response(NOT_FOUND, None, None)
    ELSE IF io_error THEN Response(INTERNAL_SERVER_ERROR, None, None)
    ELSE IF match_header # None /\ to_lowercase(match_header[1]) = md5_hash(f.data)
         THEN Response(NOT_MODIFIED, Some(md5_hash(f.data)), None)
         ELSE Response(OK, Some(md5_hash(f.data)), Some(f.data))

\* ------------------------------------------------------------------ calls
ForceRefresh == {None, Some(FALSE), Some(TRUE)}

NoProbes == [own |-> "-", coll |-> "-", under |-> "-"]

Idle ==
    [pc |-> "idle", kind |-> "-", asset_id |-> "X", force_refresh |-> None,
     match_header |-> None, cand |-> "-", id |-> "X", path |-> "X",
     result |-> NoResponse, probes |-> NoProbes, removed |-> "-",
     own_result |-> NoResponse, read |-> None, inserted |-> FALSE,
     spawned |-> FALSE]

task_name(asset_id) == <<QUERY_ICONS_TASK_PREFIX, asset_id>>

\* What a probe of `path` sees now, for the record a call keeps of its own
\* probes: no file, a zero-length file younger or older than the recheck
\* period, or a file with content.
Classify(path) ==
    LET f == files[path] IN
    IF ~f.exists THEN "absent"
    ELSE IF Len(f.data) > 0 THEN "nonempty"
    ELSE IF now - f.mtime < MAX_ICON_RECHECK_PERIOD THEN "fresh" ELSE "stale"

\* The cache directory holds any mix of missing files, zero-length files
\* and icons at the paths X is related to (Y itself belongs to the
\* collection C and wraps X in turn); the requests and the tasks start
\* from the state create_test_state builds (icons.rs:352-359).
Init ==
    /\ now = 0
    /\ globaldb \in {[collection |-> [a \in AssetIds |-> IF a = "X" THEN c ELSE "C"],
                      underlying |-> [a \in AssetIds |-> IF a = "X" THEN u ELSE Some("X")]] :
                        c \in {"X", "C"}, u \in {None, Some("Y")}}
    /\ files \in [Paths -> {NoFile, Marker(0)} \cup {Icon(c) : c \in Contents}]
    /\ globaldb.collection["X"] = "X" => files["C"] = NoFile
    /\ globaldb.underlying["X"] = None => files["Y"] = NoFile
    /\ active_tasks = {}
    /\ tasks = {}
    /\ calls = [i \in Procs |-> Idle]

Tick ==
    /\ now + TickSecs <= MaxTicks * TickSecs
    /\ now' = now + TickSecs
    /\ UNCHANGED <<files, globaldb, active_tasks, tasks, calls>>

SetCall(i, c) == calls' = [calls EXCEPT ![i] = c]

\* Requests are admitted into the lowest free slot.
FreeSlot(i) ==
    /\ calls[i].pc = "idle"
    /\ \A j \in Procs : j < i => calls[j].pc # "idle"

Return(c, response) == [c EXCEPT !.pc = "done", !.result = response]

\* ------------------------------------------------------------ check_icon
\* icons.rs:101-112: the request arrives and the own path is resolved.
StartCheck(i) ==
    /\ FreeSlot(i)
    /\ \E a \in RequestIds, fr \in ForceRefresh :
         SetCall(i, [Idle EXCEPT !.pc = "own_find", !.kind = "check",
                                 !.asset_id = a, !.force_refresh = fr,
                                 !.cand = "own", !.id = a,
                                 !.path = get_asset_path(a, FALSE)])
    /\ UNCHANGED <<files, now, globaldb, active_tasks, tasks>>

\* Mutant of check_icon_return: the collection's status is returned only
\* when it is OK.
check_icon_return_unless_ok(c, status) ==
    IF c.cand = "coll" /\ status # OK
    THEN [c EXCEPT !.pc = "under"]
    ELSE Return(c, Response(status, None, None))

\* Mutant of check_icon_return: a NOT_FOUND of the underlying token falls
\* back to querying the asset's own icon.
check_icon_return_after_underlying(c, status) ==
    IF c.cand = "coll" /\ status = NOT_FOUND
    THEN [c EXCEPT !.pc = "under"]
    ELSE IF c.cand = "under" /\ status = NOT_FOUND
    THEN [c EXCEPT !.pc = "query", !.cand = "final", !.id = c.asset_id,
                   !.path = get_asset_path(c.asset_id, FALSE)]
    ELSE Return(c, Response(status, None, None))

\* icons.rs:143-146 and 156-163: a status of the collection candidate is
\* returned unless it is NOT_FOUND; every other candidate's status is final.
check_icon_return(c, status) ==
    IF c.cand = "coll" /\ status = NOT_FOUND
    THEN [c EXCEPT !.pc = "under"]
    ELSE Return(c, Response(status, None, None))

\* icons.rs:126-146: the own icon is not usable; the collection path is
\* resolved and checked when it differs from the own path.
check_icon_collection(c) ==
    LET own_path == get_asset_path(c.asset_id, FALSE)
        collection_path == get_asset_path(c.asset_id, TRUE)
    IN IF collection_path # own_path
       THEN [c EXCEPT !.pc = "cand_find", !.cand = "coll",
                      !.id = c.asset_id, !.path = collection_path]
       ELSE [c EXCEPT !.pc = "under"]

\* Mutant of handle_non_empty_icon: the file is refreshed whatever
\* force_refresh says.
handle_non_empty_icon_always_refresh(c) == [c EXCEPT !.pc = "hne_remove"]

\* icons.rs:215-217: the part of handle_non_empty_icon before its first await.
handle_non_empty_icon(c) ==
    IF c.force_refresh # Some(TRUE)
    THEN check_icon_return(c, OK)
    ELSE [c EXCEPT !.pc = "hne_remove"]

\* Mutant of is_usable: a zero-length file counts as an icon.
is_usable_any_length(len) == len >= 0

\* icons.rs:273: a file is usable when it has content.
is_usable(len) == len > 0

\* icons.rs:249: the negative cache is still valid.
queried_recently(duration) == duration < MAX_ICON_RECHECK_PERIOD

\* icons.rs:271: find_usable_icon, the lookup of the own path.
find_usable_icon_find(i) ==
    LET c == calls[i] IN
    /\ c.pc = "own_find"
    /\ IF find_icon(c.path) = None
       THEN SetCall(i, check_icon_collection([c EXCEPT !.probes.own = "absent"]))
       ELSE SetCall(i, [c EXCEPT !.pc = "own_meta"])
    /\ UNCHANGED <<files, now, globaldb, active_tasks, tasks>>

\* icons.rs:272-273 and 114-124: the metadata of the file found at the own
\* path; a file with content goes to handle_non_empty_icon.
find_usable_icon_meta(i) ==
    LET c == calls[i]
        f == files[c.path]
    IN
    /\ c.pc = "own_meta"
    /\ IF ~f.exists
       THEN SetCall(i, check_icon_collection([c EXCEPT !.probes.own = "gone"]))
       ELSE IF is_usable(Len(f.data))
       THEN SetCall(i, handle_non_empty_icon([c EXCEPT !.probes.own = Classify(c.path)]))
       ELSE SetCall(i, check_icon_collection([c EXCEPT !.probes.own = Classify(c.path)]))
    /\ UNCHANGED <<files, now, globaldb, active_tasks, tasks>>

\* icons.rs:282-284: check_icon_for_asset_id looks the candidate's file up;
\* without a file it queries the icon.
check_icon_for_asset_id_find(i) ==
    LET c == calls[i] IN
    /\ c.pc = "cand_find"
    /\ IF find_icon(c.path) = None
       THEN SetCall(i, [c EXCEPT !.pc = "query", !.probes[c.cand] = "absent"])
       ELSE SetCall(i, [c EXCEPT !.pc = "cand_meta"])
    /\ UNCHANGED <<files, now, globaldb, active_tasks, tasks>>

\* icons.rs:238-252: the part of handle_empty_icon before its first await.
handle_empty_icon(c, modified_ok, mtime) ==
    IF ~modified_ok THEN check_icon_return(c, INTERNAL_SERVER_ERROR)
    ELSE IF now < mtime THEN check_icon_return(c, INTERNAL_SERVER_ERROR)
    ELSE IF queried_recently(now - mtime) THEN check_icon_return(c, NOT_FOUND)
    ELSE [c EXCEPT !.pc = "he_remove"]

\* icons.rs:285-296: the metadata of the candidate's file.
check_icon_for_asset_id_meta(i) ==
    LET c == calls[i]
        f == files[c.path]
    IN
    /\ c.pc = "cand_meta"
    /\ IF ~f.exists
       THEN SetCall(i, check_icon_return([c EXCEPT !.probes[c.cand] = "gone"], NOT_FOUND))
       ELSE IF Len(f.data) > 0
       THEN SetCall(i, handle_non_empty_icon([c EXCEPT !.probes[c.cand] = Classify(c.path)]))
       ELSE \E modified_ok \in BOOLEAN :
              SetCall(i, handle_empty_icon([c EXCEPT !.probes[c.cand] = Classify(c.path)],
                                           modified_ok, f.mtime))
    /\ UNCHANGED <<files, now, globaldb, active_tasks, tasks>>

\* Mutant of handle_non_empty_icon_remove: a failed delete is ignored, as
\* it is in handle_empty_icon.
handle_non_empty_icon_remove_ignoring_failure(i) ==
    LET c == calls[i]
        f == files[c.path]
    IN
    /\ c.pc = "hne_remove"
    /\ \E io_error \in BOOLEAN :
         IF io_error \/ ~f.exists
         THEN /\ SetCall(i, [c EXCEPT !.pc = "query"])
              /\ UNCHANGED files
         ELSE /\ files' = [files EXCEPT ![c.path] = NoFile]
              /\ SetCall(i, [c EXCEPT !.pc = "query", !.removed = Classify(c.path)])
    /\ UNCHANGED <<now, globaldb, active_tasks, tasks>>

\* icons.rs:219-228: the forced refresh deletes the file and queries the
\* icon; a failed delete (an I/O error, or no file left to delete) is an
\* internal error.
handle_non_empty_icon_remove(i) ==
    LET c == calls[i]
        f == files[c.path]
    IN
    /\ c.pc = "hne_remove"
    /\ \E io_error \in BOOLEAN :
         IF io_error \/ ~f.exists
         THEN /\ SetCall(i, check_icon_return(c, INTERNAL_SERVER_ERROR))
              /\ UNCHANGED files
         ELSE /\ files' = [files EXCEPT ![c.path] = NoFile]
              /\ SetCall(i, [c EXCEPT !.pc = "query", !.removed = Classify(c.path)])
    /\ UNCHANGED <<now, globaldb, active_tasks, tasks>>

\* icons.rs:254-262: the negative cache has expired: the file is deleted
\* (a failure is ignored) and the remote query is spawned.
handle_empty_icon_retry(i) ==
    LET c == calls[i]
        f == files[c.path]
    IN
    /\ c.pc = "he_remove"
    /\ \E io_error \in BOOLEAN :
         IF io_error \/ ~f.exists
         THEN /\ UNCHANGED files
              /\ SetCall(i, check_icon_return([c EXCEPT !.spawned = TRUE], ACCEPTED))
         ELSE /\ files' = [files EXCEPT ![c.path] = NoFile]
              /\ SetCall(i, check_icon_return([c EXCEPT !.spawned = TRUE,
                                                        !.removed = Classify(c.path)], ACCEPTED))
    /\ tasks' = tasks \cup {[by |-> i, asset_id |-> c.id, path |-> c.path,
                             registered |-> FALSE, pc |-> "query"]}
    /\ UNCHANGED <<now, globaldb, active_tasks>>

\* Mutant of query_icon_insert: the task name is registered without looking
\* at the result of the insert, so a second task is spawned.
query_icon_insert_unchecked(i) ==
    LET c == calls[i] IN
    /\ c.pc = "query"
    /\ active_tasks' = active_tasks \cup {task_name(c.id)}
    /\ SetCall(i, [c EXCEPT !.pc = "spawn", !.inserted = TRUE])
    /\ UNCHANGED <<files, now, globaldb, tasks>>

\* icons.rs:184-189: query_icon registers the task name under the lock; a
\* name already registered means the query is running.
query_icon_insert(i) ==
    LET c == calls[i]
        task_key == task_name(c.id)
    IN
    /\ c.pc = "query"
    /\ IF task_key \in active_tasks
       THEN /\ SetCall(i, check_icon_return(c, ACCEPTED))
            /\ UNCHANGED active_tasks
       ELSE /\ active_tasks' = active_tasks \cup {task_key}
            /\ SetCall(i, [c EXCEPT !.pc = "spawn", !.inserted = TRUE])
    /\ UNCHANGED <<files, now, globaldb, tasks>>

\* Mutant of query_icon_spawn: the handler awaits the task it spawned.
query_icon_spawn_awaiting_task(i) ==
    LET c == calls[i] IN
    \/ /\ c.pc = "spawn"
       /\ tasks' = tasks \cup {[by |-> i, asset_id |-> c.id, path |-> c.path,
                                registered |-> TRUE, pc |-> "query"]}
       /\ SetCall(i, [c EXCEPT !.pc = "join", !.spawned = TRUE])
       /\ UNCHANGED <<files, now, globaldb, active_tasks>>
    \/ /\ c.pc = "join"
       /\ \A t \in tasks : t.by # i
       /\ SetCall(i, check_icon_return(c, ACCEPTED))
       /\ UNCHANGED <<files, now, globaldb, active_tasks, tasks>>

\* Mutant of query_icon_spawn: the task is spawned for the collection path.
query_icon_spawn_collection_path(i) ==
    LET c == calls[i] IN
    /\ c.pc = "spawn"
    /\ tasks' = tasks \cup {[by |-> i, asset_id |-> c.id,
                             path |-> get_asset_path(c.id, TRUE),
                             registered |-> TRUE, pc |-> "query"]}
    /\ SetCall(i, check_icon_return([c EXCEPT !.spawned = TRUE], ACCEPTED))
    /\ UNCHANGED <<files, now, globaldb, active_tasks>>

\* icons.rs:191-205: query_icon spawns the task and answers ACCEPTED.
query_icon_spawn(i) ==
    LET c == calls[i] IN
    /\ c.pc = "spawn"
    /\ tasks' = tasks \cup {[by |-> i, asset_id |-> c.id, path |-> c.path,
                             registered |-> TRUE, pc |-> "query"]}
    /\ SetCall(i, check_icon_return([c EXCEPT !.spawned = TRUE], ACCEPTED))
    /\ UNCHANGED <<files, now, globaldb, active_tasks>>

\* Mutant of get_underlying_id: a failed lookup is answered with
\* INTERNAL_SERVER_ERROR.
get_underlying_id_propagating_error(i) ==
    LET c == calls[i] IN
    /\ c.pc = "under"
    /\ \E db_error \in BOOLEAN :
         LET underlying_id == globaldb.underlying[c.asset_id]
         IN IF db_error
            THEN SetCall(i, Return(c, Response(INTERNAL_SERVER_ERROR, None, None)))
            ELSE IF underlying_id # None
            THEN SetCall(i, [c EXCEPT !.pc = "cand_find", !.cand = "under",
                                      !.id = underlying_id[1],
                                      !.path = get_asset_path(underlying_id[1], FALSE)])
            ELSE SetCall(i, [c EXCEPT !.pc = "query", !.cand = "final",
                                      !.id = c.asset_id,
                                      !.path = get_asset_path(c.asset_id, FALSE)])
    /\ UNCHANGED <<files, now, globaldb, active_tasks, tasks>>

\* icons.rs:299-314 and 148-170: the underlying token; a failed lookup
\* counts as no underlying token.
get_underlying_id(i) ==
    LET c == calls[i] IN
    /\ c.pc = "under"
    /\ \E db_error \in BOOLEAN :
         LET underlying_id == IF db_error THEN None
                              ELSE globaldb.underlying[c.asset_id]
         IN IF underlying_id # None
            THEN SetCall(i, [c EXCEPT !.pc = "cand_find", !.cand = "under",
                                      !.id = underlying_id[1],
                                      !.path = get_asset_path(underlying_id[1], FALSE)])
            ELSE SetCall(i, [c EXCEPT !.pc = "query", !.cand = "final",
                                      !.id = c.asset_id,
                                      !.path = get_asset_path(c.asset_id, FALSE)])
    /\ UNCHANGED <<files, now, globaldb, active_tasks, tasks>>

\* ------------------------------------------------------- the spawned task
\* icons::query_icon_remotely: the icon found is written to the path; when
\* none is found a zero-length file is written.
query_icon_remotely(t) ==
    /\ t \in tasks
    /\ t.pc = "query"
    /\ \E icon \in {None} \cup {Some(c) : c \in Contents} :
         files' = [files EXCEPT ![t.path] =
                      IF icon = None THEN Marker(now) ELSE Icon(icon[1])]
    /\ tasks' = IF t.registered
                THEN (tasks \ {t}) \cup {[t EXCEPT !.pc = "remove"]}
                ELSE tasks \ {t}
    /\ UNCHANGED <<now, globaldb, active_tasks, calls>>

\* Mutant of task_remove: the task ends without removing its name.
task_remove_keeps_name(t) ==
    /\ t \in tasks
    /\ t.pc = "remove"
    /\ tasks' = tasks \ {t}
    /\ UNCHANGED <<files, now, globaldb, active_tasks, calls>>

\* icons.rs:202: the task removes its name once the query has returned.
task_remove(t) ==
    /\ t \in tasks
    /\ t.pc = "remove"
    /\ active_tasks' = active_tasks \ {task_name(t.asset_id)}
    /\ tasks' = tasks \ {t}
    /\ UNCHANGED <<files, now, globaldb, calls>>

\* -------------------------------------------------------------- get_icon
\* Mutant of into_response: the headers are sent only together with bytes.
into_response_headers_with_bytes_only(r) ==
    IF r.headers # None /\ r.bytes # None THEN Response(r.status, r.headers, r.bytes)
    ELSE Response(r.status, None, None)

\* icons.rs:83-87: the response is built from the parts present.
into_response(r) ==
    IF r.headers # None /\ r.bytes # None THEN Response(r.status, r.headers, r.bytes)
    ELSE IF r.headers # None THEN Response(r.status, r.headers, None)
    ELSE Response(r.status, None, None)

\* Mutants of falls_back: every result but OK falls back; nothing falls back.
falls_back_unless_ok(result) == result.status # OK

falls_back_never(result) == FALSE

\* icons.rs:59: only a NOT_FOUND of the own path falls back.
falls_back(result) == result.status = NOT_FOUND

StartGet(i) ==
    /\ FreeSlot(i)
    /\ \E a \in RequestIds, mh \in MatchHeaders :
         SetCall(i, [Idle EXCEPT !.pc = "get_own", !.kind = "get",
                                 !.asset_id = a, !.match_header = mh,
                                 !.cand = "own", !.id = a,
                                 !.path = get_asset_path(a, FALSE)])
    /\ UNCHANGED <<files, now, globaldb, active_tasks, tasks>>

\* icons.rs:41-67: the own path is read; on NOT_FOUND the collection path
\* is resolved and read next when it differs.
get_icon_own(i) ==
    LET c == calls[i] IN
    /\ c.pc = "get_own"
    /\ \E io_error \in BOOLEAN :
         LET result == icons_get_icon(c.path, c.match_header, io_error)
             collection_path == get_asset_path(c.asset_id, TRUE)
             seen == [c EXCEPT !.probes.own = IF result.status = INTERNAL_SERVER_ERROR
                                              THEN "unreadable" ELSE Classify(c.path),
                               !.own_result = result,
                               !.read = IF result.status \in {OK, NOT_MODIFIED}
                                        THEN Some(files[c.path].data) ELSE None]
         IN IF falls_back(result) /\ collection_path # c.path
            THEN SetCall(i, [seen EXCEPT !.pc = "get_coll", !.cand = "coll",
                                         !.path = collection_path])
            ELSE SetCall(i, Return(seen, into_response(result)))
    /\ UNCHANGED <<files, now, globaldb, active_tasks, tasks>>

\* Mutant of get_icon_collection: an icon that is not found is asked for
\* from the icon sources.
get_icon_collection_then_query(i) ==
    LET c == calls[i] IN
    /\ c.pc = "get_coll"
    /\ \E io_error \in BOOLEAN :
         LET result == icons_get_icon(c.path, c.match_header, io_error) IN
         /\ SetCall(i, Return([c EXCEPT !.probes.coll = IF result.status = INTERNAL_SERVER_ERROR
                                                        THEN "unreadable" ELSE Classify(c.path),
                                        !.read = IF result.status \in {OK, NOT_MODIFIED}
                                                 THEN Some(files[c.path].data) ELSE None],
                              into_response(result)))
         /\ IF result.status = NOT_FOUND /\ task_name(c.asset_id) \notin active_tasks
            THEN /\ active_tasks' = active_tasks \cup {task_name(c.asset_id)}
                 /\ tasks' = tasks \cup {[by |-> i, asset_id |-> c.asset_id,
                                          path |-> get_asset_path(c.asset_id, FALSE),
                                          registered |-> TRUE, pc |-> "query"]}
            ELSE UNCHANGED <<active_tasks, tasks>>
    /\ UNCHANGED <<files, now, globaldb>>

\* Mutant of get_icon_collection: a NOT_FOUND of the collection path goes on
\* to the icon of the underlying token, as check_icon does.
get_icon_collection_then_underlying(i) ==
    LET c == calls[i]
        underlying_id == globaldb.underlying[c.asset_id]
    IN
    /\ c.pc = "get_coll"
    /\ \E io_error \in BOOLEAN :
         LET result == icons_get_icon(c.path, c.match_header, io_error) IN
         IF result.status = NOT_FOUND /\ underlying_id # None
         THEN SetCall(i, Return([c EXCEPT !.probes.coll = Classify(c.path),
                                          !.probes.under = Classify(underlying_id[1])],
                                into_response(icons_get_icon(underlying_id[1],
                                                             c.match_header, io_error))))
         ELSE SetCall(i, Return([c EXCEPT !.probes.coll = Classify(c.path)],
                                into_response(result)))
    /\ UNCHANGED <<files, now, globaldb, active_tasks, tasks>>

\* icons.rs:68-87: the collection path is read and its result returned.
get_icon_collection(i) ==
    LET c == calls[i] IN
    /\ c.pc = "get_coll"
    /\ \E io_error \in BOOLEAN :
         LET result == icons_get_icon(c.path, c.match_header, io_error) IN
         SetCall(i, Return([c EXCEPT !.probes.coll = IF result.status = INTERNAL_SERVER_ERROR
                                                     THEN "unreadable" ELSE Classify(c.path),
                                     !.read = IF result.status \in {OK, NOT_MODIFIED}
                                              THEN Some(files[c.path].data) ELSE None],
                           into_response(result)))
    /\ UNCHANGED <<files, now, globaldb, active_tasks, tasks>>

check_icon(i) ==
    \/ StartCheck(i)
    \/ find_usable_icon_find(i)
    \/ find_usable_icon_meta(i)
    \/ check_icon_for_asset_id_find(i)
    \/ check_icon_for_asset_id_meta(i)
    \/ handle_non_empty_icon_remove(i)
    \/ handle_empty_icon_retry(i)
    \/ query_icon_insert(i)
    \/ query_icon_spawn(i)
    \/ get_underlying_id(i)

get_icon(i) ==
    \/ StartGet(i)
    \/ get_icon_own(i)
    \/ get_icon_collection(i)

Next ==
    \/ Tick
    \/ \E i \in Procs : check_icon(i)
    \/ \E i \in Procs : get_icon(i)
    \/ \E t \in tasks : query_icon_remotely(t)
    \/ \E t \in tasks : task_remove(t)

Spec == Init /\ [][Next]_vars

\* The same program started on an empty cache directory.
InitFresh == Init /\ \A p \in Paths : files[p] = NoFile

SpecFresh == InitFresh /\ [][Next]_vars

\* The steps of a request handler that has been entered: the runtime keeps
\* polling a handler until it returns.
handler_step(i) ==
    /\ calls[i].pc \notin {"idle", "done"}
    /\ (check_icon(i) \/ get_icon(i))

\* The empty cache directory under the runtime's scheduling: a handler
\* that was entered keeps being polled, a spawned task is run, its remote
\* query returns, and the task then takes the active_tasks lock.  Requests
\* and the passing of time are not forced.
SpecFreshFair ==
    /\ InitFresh
    /\ [][Next]_vars
    /\ \A i \in Procs : WF_vars(handler_step(i))
    /\ WF_vars(\E t \in tasks : query_icon_remotely(t))
    /\ WF_vars(\E t \in tasks : task_remove(t))

\* The empty cache directory with only the handlers scheduled: a spawned
\* task may never run and a remote query may never return.
SpecFreshPolled ==
    /\ InitFresh
    /\ [][Next]_vars
    /\ \A i \in Procs : WF_vars(handler_step(i))
\* ================================================================ claims
Finished(i) == calls[i].pc = "done"
Checks == {i \in Procs : calls[i].kind = "check"}
Gets == {i \in Procs : calls[i].kind = "get"}
Forced(i) == calls[i].force_refresh = Some(TRUE)
Status(i) == calls[i].result.status

OwnPath(i) == get_asset_path(calls[i].asset_id, FALSE)
CollectionPath(i) == get_asset_path(calls[i].asset_id, TRUE)

\* The probe saw no icon: no file, a file that vanished, a zero-length file.
Unusable == {"absent", "gone", "fresh", "stale"}

\* The remote queries running now for the task name `key`.
Executing(key) == {t \in tasks : t.pc = "query" /\ task_name(t.asset_id) = key}

\* The calls that spawned a task, and those whose task's query has returned.
Dispatched == {i \in Procs : calls[i].spawned}
Completed == {i \in Dispatched : ~\E t \in tasks : t.by = i /\ t.pc = "query"}

\* C1: in every reachable state at most one remote query is running for
\* any task name (prefix + asset id being fetched).
C1_SingleFlight ==
    \A a \in AssetIds : Cardinality(Executing(task_name(a))) <= 1

\* C2 as stated: from an empty cache and an empty active_tasks, the
\* check_icon calls for one asset id spawn at most one task in total and
\* every call that has returned has returned ACCEPTED.
C2_OneFetchInTotal ==
    /\ Cardinality(Dispatched) <= 1
    /\ \A i \in Checks : Finished(i) => Status(i) = ACCEPTED

\* The underlying-token lookup of call i failed: X has an underlying token
\* and the call went on to query X itself.
LookupFailed(i) ==
    calls[i].cand = "final" /\ globaldb.underlying[calls[i].asset_id] # None

\* C2 as amended: from an empty cache and an empty active_tasks, as long as
\* no spawned task's query has returned, the check_icon calls for one asset
\* id spawn at most one task per task name (one in total when no
\* underlying-token lookup failed), and every call that has returned has
\* returned ACCEPTED.
C2_OneFetchWhileNoneCompleted ==
    Completed = {} =>
        /\ \A a \in AssetIds :
             Cardinality({i \in Dispatched : calls[i].id = a}) <= 1
        /\ (\A i \in Checks : ~LookupFailed(i)) => Cardinality(Dispatched) <= 1
        /\ \A i \in Checks : Finished(i) => Status(i) = ACCEPTED

\* C2 witness: every call is a check_icon that returned ACCEPTED, one of
\* them spawned the task and its query is still running.
C2_Witness ==
    /\ \A p \in Paths : files[p] = NoFile
    /\ \A i \in Procs : i \in Checks /\ Finished(i) /\ Status(i) = ACCEPTED
    /\ Cardinality(Dispatched) = 1
    /\ Completed = {}

\* C3: a check_icon call without force_refresh that saw a zero-length file
\* younger than 12 hours at the asset's own path, and an icon at no
\* candidate, returns NOT_FOUND (an I/O failure apart) and spawns no task.
C3_NegativeCacheWindow ==
    \A i \in Checks :
        (/\ Finished(i)
         /\ ~Forced(i)
         /\ calls[i].probes.own = "fresh"
         /\ calls[i].probes.coll # "nonempty"
         /\ calls[i].probes.under # "nonempty")
        => /\ Status(i) \in {NOT_FOUND, INTERNAL_SERVER_ERROR}
           /\ ~calls[i].spawned

\* C4: a check_icon call with force_refresh = true whose candidate has a
\* file (an icon or a zero-length file of any age) returns ACCEPTED or
\* INTERNAL_SERVER_ERROR, never NOT_FOUND or OK.
C4_ForcedRefresh ==
    \A i \in Checks :
        (/\ Finished(i)
         /\ Forced(i)
         /\ calls[i].cand \in {"own", "coll", "under"}
         /\ calls[i].probes[calls[i].cand] \in {"fresh", "stale", "nonempty"})
        => Status(i) \in {ACCEPTED, INTERNAL_SERVER_ERROR}

\* The answer of the content responder for the bytes `data` and the
\* match header `mh`.
Conditional(data, mh) ==
    IF mh # None /\ to_lowercase(mh[1]) = md5_hash(data)
    THEN Response(NOT_MODIFIED, Some(md5_hash(data)), None)
    ELSE Response(OK, Some(md5_hash(data)), Some(data))

\* C5: a get_icon whose read of the own path gave anything but NOT_FOUND
\* answers with that result (the bytes and the fingerprint of the own file
\* when it was read) and never reads the collection path; it answers from
\* the collection path only after a NOT_FOUND of a different own path.
C5_OwnPriority ==
    \A i \in Gets : Finished(i) =>
        /\ calls[i].probes.own \in {"nonempty", "unreadable"} =>
             /\ calls[i].cand = "own"
             /\ calls[i].probes.coll = "-"
             /\ calls[i].result = calls[i].own_result
             /\ Status(i) # NOT_FOUND
        /\ calls[i].probes.own = "nonempty" =>
             /\ calls[i].read # None
             /\ calls[i].result = Conditional(calls[i].read[1], calls[i].match_header)
        /\ calls[i].cand = "coll" =>
             /\ calls[i].own_result.status = NOT_FOUND
             /\ CollectionPath(i) # OwnPath(i)

\* C5 witness: own and collection paths differ and hold different icons,
\* and the get_icon returned the bytes of the own file.
C5_Witness ==
    \E i \in Gets :
        /\ Finished(i)
        /\ CollectionPath(i) # OwnPath(i)
        /\ Len(files[OwnPath(i)].data) > 0
        /\ Len(files[CollectionPath(i)].data) > 0
        /\ files[OwnPath(i)].data # files[CollectionPath(i)].data
        /\ calls[i].result = Response(OK, Some(md5_hash(files[OwnPath(i)].data)),
                                      Some(files[OwnPath(i)].data))

\* C6: when the collection path differs from the own path and the own path
\* gave no icon, get_icon reads the collection path, and when it reads an
\* icon there it answers OK with that file's bytes and fingerprint
\* (NOT_MODIFIED when the match header equals the fingerprint).
C6_ReadFallback ==
    \A i \in Gets :
        (Finished(i) /\ CollectionPath(i) # OwnPath(i) /\ calls[i].probes.own \in Unusable)
        => /\ calls[i].cand = "coll"
           /\ calls[i].probes.coll # "-"
           /\ calls[i].probes.coll = "nonempty" =>
                /\ calls[i].read # None
                /\ calls[i].result = Conditional(calls[i].read[1], calls[i].match_header)

\* C6 witness: no own file, an icon at the collection path, and the
\* get_icon without match header returned OK with the collection's bytes.
C6_Witness ==
    \E i \in Gets :
        /\ Finished(i)
        /\ CollectionPath(i) # OwnPath(i)
        /\ calls[i].probes.own = "absent"
        /\ calls[i].match_header = None
        /\ Len(files[CollectionPath(i)].data) > 0
        /\ calls[i].result = Response(OK, Some(md5_hash(files[CollectionPath(i)].data)),
                                      Some(files[CollectionPath(i)].data))

\* C7: a get_icon that found no icon at the own path and none at the
\* collection path (or has no separate collection path) returns NOT_FOUND
\* without headers and bytes, and never looks at the underlying token.
C7_BothAbsent ==
    \A i \in Gets : Finished(i) =>
        /\ calls[i].probes.under = "-"
        /\ (/\ calls[i].probes.own \in Unusable
            /\ (CollectionPath(i) = OwnPath(i) \/ calls[i].probes.coll \in Unusable))
           => calls[i].result = Response(NOT_FOUND, None, None)

\* C7 witness: the underlying token of X has an icon, X has none, and the
\* get_icon returned NOT_FOUND.
C7_Witness ==
    \E i \in Gets :
        /\ Finished(i)
        /\ globaldb.underlying[calls[i].asset_id] = Some("Y")
        /\ Len(files["Y"].data) > 0
        /\ ~files[OwnPath(i)].exists
        /\ ~files[CollectionPath(i)].exists
        /\ calls[i].result = Response(NOT_FOUND, None, None)

\* C8 as stated: a get_icon that read an icon with content C and
\* fingerprint F = hash(C) returns NOT_MODIFIED with the header F and no body
\* when the match header equals F, and OK with the header F and the body C
\* for every match header different from F, or none.
C8_ConditionalRead ==
    \A i \in Gets :
        (Finished(i) /\ calls[i].read # None)
        => LET C == calls[i].read[1]
               F == md5_hash(C)
           IN IF calls[i].match_header = Some(F)
              THEN calls[i].result = Response(NOT_MODIFIED, Some(F), None)
              ELSE calls[i].result = Response(OK, Some(F), Some(C))

\* C8 as amended: the match header is compared with F ignoring the case of
\* the hex digits: NOT_MODIFIED with the header F and no body when they are
\* equal up to case, OK with the header F and the body C otherwise.
C8_ConditionalReadIgnoringCase ==
    \A i \in Gets :
        (Finished(i) /\ calls[i].read # None)
        => LET C == calls[i].read[1]
               F == md5_hash(C)
               mh == calls[i].match_header
           IN IF mh # None /\ to_lowercase(mh[1]) = F
              THEN calls[i].result = Response(NOT_MODIFIED, Some(F), None)
              ELSE calls[i].result = Response(OK, Some(F), Some(C))

\* C8 witness: one get_icon returned NOT_MODIFIED for a match header equal
\* to the fingerprint up to case, and another returned OK with the body for
\* a header that does not match.
C8_Witness ==
    \E i, j \in Gets :
        /\ Finished(i) /\ Finished(j)
        /\ calls[i].match_header = Some("55A54008")
        /\ Status(i) = NOT_MODIFIED /\ calls[i].result.bytes = None
        /\ calls[j].match_header = Some("wrong")
        /\ Status(j) = OK /\ calls[j].result.bytes = calls[j].read

\* C9: check_icon returns OK only for a candidate whose probe saw content,
\* and get_icon returns OK or NOT_MODIFIED only for bytes of a file with
\* content: a zero-length file is never answered as an icon.
C9_ZeroLengthNeverUsable ==
    /\ \A i \in Checks : (Finished(i) /\ Status(i) = OK) =>
          /\ calls[i].cand \in {"own", "coll", "under"}
          /\ calls[i].probes[calls[i].cand] = "nonempty"
    /\ \A i \in Gets : (Finished(i) /\ Status(i) \in {OK, NOT_MODIFIED}) =>
          /\ calls[i].probes[calls[i].cand] = "nonempty"
          /\ calls[i].read # None
          /\ Len(calls[i].read[1]) > 0
    /\ \A i \in Procs : Finished(i) =>
          \A k \in {"own", "coll", "under"} :
             (calls[i].probes[k] \in {"fresh", "stale"} /\ calls[i].cand = k)
             => Status(i) \notin {OK, NOT_MODIFIED}

\* C9 witness: a check_icon passed over a zero-length file at the own path
\* and answered from the collection's icon, and the read of a zero-length
\* own file by a get_icon gave NOT_FOUND.
C9_Witness ==
    /\ \E i \in Checks : Finished(i) /\ calls[i].probes.own \in {"fresh", "stale"}
                         /\ Status(i) = OK /\ calls[i].cand = "coll"
    /\ \E i \in Gets : Finished(i) /\ calls[i].probes.own \in {"fresh", "stale"}
                       /\ calls[i].own_result = Response(NOT_FOUND, None, None)

\* C10: a check_icon without forced refresh whose first usable candidate in
\* the order own, collection has content returns OK, and a call that
\* returns OK has deleted no file, registered no task name and spawned no
\* task.
C10_UsableIconUnchanged ==
    \A i \in Checks : Finished(i) =>
        /\ (~Forced(i) /\ calls[i].probes.own = "nonempty") =>
              Status(i) = OK /\ calls[i].cand = "own"
        /\ (~Forced(i) /\ calls[i].probes.own # "nonempty"
                       /\ calls[i].probes.coll = "nonempty") =>
              Status(i) = OK /\ calls[i].cand = "coll"
        /\ Status(i) = OK =>
              /\ calls[i].removed = "-"
              /\ ~calls[i].inserted
              /\ ~calls[i].spawned
              /\ ~\E t \in tasks : t.by = i

\* C10 witness: a check_icon answered OK from the collection's icon while a
\* task spawned by another call is still registered.
C10_Witness ==
    \E i \in Checks :
        /\ Finished(i) /\ ~Forced(i)
        /\ calls[i].probes.own = "absent" /\ calls[i].probes.coll = "nonempty"
        /\ Status(i) = OK
        /\ active_tasks # {}

\* C11: under the runtime's scheduling every task name that is in
\* active_tasks is removed from it again, so active_tasks is empty again
\* and again and a later check_icon call can spawn a new task for the name.
C11_KeyReleased ==
    \A a \in AssetIds :
        (task_name(a) \in active_tasks) ~> (task_name(a) \notin active_tasks)

\* Two check_icon calls have each inserted the same task name and spawned
\* a task for it, and the name has been released again.
C11_Witness ==
    /\ active_tasks = {}
    /\ tasks = {}
    /\ \E i, j \in Checks :
         /\ i # j
         /\ calls[i].inserted /\ calls[i].spawned
         /\ calls[j].inserted /\ calls[j].spawned
         /\ calls[i].id = calls[j].id

\* The call has gone past the collection candidate to the underlying token.
PastCollection(i) ==
    calls[i].pc = "under" \/ calls[i].cand \in {"under", "final"}

\* C12: check_icon looks at the own path, then the collection path, then
\* the underlying token, and stops at the first candidate that settles the
\* request: the collection is consulted only after the own path held no
\* usable icon and only when its path differs from the own path; the
\* underlying token is looked up only after the collection was skipped or
\* answered NOT_FOUND; every other answer of the collection is returned.
C12_CandidateOrder ==
    \A i \in Checks :
        LET c == calls[i] IN
        /\ (c.probes.own = "nonempty" \/ (Finished(i) /\ c.cand = "own"))
             => /\ c.probes.own = "nonempty"
                /\ c.cand = "own"
                /\ c.probes.coll = "-" /\ c.probes.under = "-"
        /\ (c.cand = "coll" \/ c.probes.coll # "-")
             => /\ c.probes.own \in Unusable
                /\ CollectionPath(i) # OwnPath(i)
        /\ PastCollection(i)
             => /\ c.probes.own \in Unusable
                /\ IF CollectionPath(i) = OwnPath(i)
                   THEN c.probes.coll = "-"
                   ELSE c.probes.coll \in {"gone", "fresh"}
        /\ c.probes.under # "-" => c.cand = "under"
        /\ (Finished(i) /\ c.cand = "coll")
             => /\ Status(i) \in {OK, ACCEPTED, INTERNAL_SERVER_ERROR}
                /\ c.probes.coll \in {"absent", "nonempty", "fresh", "stale"}

\* A call found nothing usable at the own path, got NOT_FOUND from the
\* negative cache of the collection and was settled by the underlying token.
C12_Witness ==
    \E i \in Checks :
        /\ Finished(i)
        /\ calls[i].cand = "under"
        /\ calls[i].probes.own = "absent"
        /\ calls[i].probes.coll = "fresh"
        /\ calls[i].probes.under = "nonempty"
        /\ Status(i) = OK

\* The answer of check_icon_for_asset_id for a call that was not asked to
\* refresh, or that found a file with content: what the call's probe of the
\* candidate saw fixes the status and what was deleted and spawned.
SingleCandidateCheck(i, probe) ==
    LET c == calls[i] IN
    CASE probe = "absent" ->
           Status(i) = ACCEPTED /\ c.removed = "-" /\ (c.spawned <=> c.inserted)
      [] probe = "gone" ->
           Status(i) = NOT_FOUND /\ c.removed = "-" /\ ~c.spawned /\ ~c.inserted
      [] probe = "nonempty" /\ ~Forced(i) ->
           Status(i) = OK /\ c.removed = "-" /\ ~c.spawned /\ ~c.inserted
      [] probe = "nonempty" /\ Forced(i) ->
           \/ Status(i) = ACCEPTED /\ c.removed # "-" /\ (c.spawned <=> c.inserted)
           \/ /\ Status(i) = INTERNAL_SERVER_ERROR
              /\ c.removed = "-" /\ ~c.spawned /\ ~c.inserted
      [] probe = "fresh" /\ ~Forced(i) ->
           /\ Status(i) \in {NOT_FOUND, INTERNAL_SERVER_ERROR}
           /\ c.removed = "-" /\ ~c.spawned /\ ~c.inserted
      [] probe = "stale" /\ ~Forced(i) ->
           \/ Status(i) = ACCEPTED /\ c.spawned /\ ~c.inserted
           \/ /\ Status(i) = INTERNAL_SERVER_ERROR
              /\ c.removed = "-" /\ ~c.spawned /\ ~c.inserted
      [] OTHER -> TRUE

\* C13: once check_icon has got the underlying token Y of X, the call is
\* settled by check_icon_for_asset_id on Y's own path: the call stays on
\* that candidate, which is neither Y's collection path nor X's own path,
\* every task it spawns queries Y into Y's own path, and its answer is the
\* answer of that one check with the call's force_refresh.
C13_UnderlyingIsFinal ==
    \A i \in Checks :
        LET c == calls[i]
            underlying_id == globaldb.underlying[c.asset_id]
        IN (c.cand = "under" \/ c.probes.under # "-") =>
             /\ underlying_id # None
             /\ c.cand = "under"
             /\ c.id = underlying_id[1]
             /\ c.path = get_asset_path(underlying_id[1], FALSE)
             /\ c.path # get_asset_path(underlying_id[1], TRUE)
             /\ c.path # OwnPath(i)
             /\ \A t \in tasks :
                  t.by = i => t.asset_id = c.id /\ t.path = c.path
             /\ Finished(i) => SingleCandidateCheck(i, c.probes.under)

\* A forced call was settled by the underlying token: it deleted Y's icon
\* and its task, registered under Y's name, is querying Y.
C13_Witness ==
    \E i \in Checks :
        /\ Finished(i) /\ Forced(i)
        /\ calls[i].cand = "under"
        /\ calls[i].probes.under = "nonempty"
        /\ calls[i].removed = "nonempty"
        /\ Status(i) = ACCEPTED
        /\ task_name("Y") \in active_tasks
        /\ \E t \in tasks : t.by = i /\ t.asset_id = "Y" /\ t.path = "Y"
                            /\ t.registered /\ t.pc = "query"

\* The tasks that query_icon spawned for the asset `a` and that have not
\* yet removed their name.
Registered(a) == {t \in tasks : t.registered /\ t.asset_id = a}

\* C14: a check_icon call that no candidate settled, for an asset without
\* an underlying token, queries the asset itself into its own path and
\* answers ACCEPTED; it spawns a task exactly when it inserted the task
\* name, so with the name already in active_tasks it answers ACCEPTED and
\* spawns nothing, and no name ever has two tasks of query_icon.
C14_FinalFallback ==
    /\ \A a \in AssetIds :
         /\ Cardinality(Registered(a)) <= 1
         /\ Registered(a) # {} => task_name(a) \in active_tasks
    /\ \A i \in Checks :
         LET c == calls[i] IN
         (c.cand = "final" /\ globaldb.underlying[c.asset_id] = None) =>
             /\ c.probes.own \in Unusable
             /\ c.probes.coll \in {"-", "gone", "fresh"}
             /\ c.id = c.asset_id
             /\ c.path = OwnPath(i)
             /\ c.removed = "-"
             /\ c.pc \in {"query", "spawn", "done"}
             /\ c.pc = "query" => ~c.inserted /\ ~c.spawned
             /\ c.pc = "spawn" => /\ c.inserted /\ ~c.spawned
                                  /\ task_name(c.id) \in active_tasks
             /\ \A t \in tasks :
                  t.by = i => /\ t.asset_id = c.asset_id
                              /\ t.path = OwnPath(i)
                              /\ t.registered
             /\ Finished(i) => /\ Status(i) = ACCEPTED
                               /\ c.spawned <=> c.inserted

\* Two calls for an asset without icon, collection and underlying token:
\* the first spawned the task, which is still querying; the second found
\* the name in active_tasks and answered ACCEPTED without a task.
C14_Witness ==
    \E i, j \in Checks :
        /\ globaldb.underlying["X"] = None
        /\ Finished(i) /\ calls[i].cand = "final"
        /\ calls[i].inserted /\ calls[i].spawned /\ Status(i) = ACCEPTED
        /\ tasks = {[by |-> i, asset_id |-> "X", path |-> "X",
                     registered |-> TRUE, pc |-> "query"]}
        /\ Finished(j) /\ calls[j].cand = "final"
        /\ ~calls[j].inserted /\ ~calls[j].spawned /\ Status(j) = ACCEPTED

\* The candidate that settled the call, as the call's probe saw it.
Settled(i) ==
    IF calls[i].cand \in {"own", "coll", "under"}
    THEN calls[i].probes[calls[i].cand] ELSE "-"

\* C15: a forced check_icon call that found a file with content and could
\* not delete it answers INTERNAL_SERVER_ERROR, has inserted no task name
\* and has spawned no task.
C15_FailedDelete ==
    \A i \in Checks :
        (Finished(i) /\ Forced(i) /\ Settled(i) = "nonempty"
                     /\ calls[i].removed = "-") =>
            /\ Status(i) = INTERNAL_SERVER_ERROR
            /\ ~calls[i].inserted
            /\ ~calls[i].spawned
            /\ \A t \in tasks : t.by # i

\* The delete of a forced refresh failed with nothing else going on: the
\* icon is still in place, active_tasks is empty and no task exists.
C15_Witness ==
    \E i \in Checks :
        /\ Finished(i) /\ Forced(i)
        /\ calls[i].probes.own = "nonempty"
        /\ calls[i].removed = "-"
        /\ Status(i) = INTERNAL_SERVER_ERROR
        /\ Classify(OwnPath(i)) = "nonempty"
        /\ active_tasks = {}
        /\ tasks = {}

\* C16: a check_icon call whose lookup of the underlying token failed goes
\* on as a call for an asset without underlying token does: it queries the
\* asset itself into its own path and answers ACCEPTED.  A call answers
\* INTERNAL_SERVER_ERROR only for a file it could not delete or whose
\* modification time it could not use.
C16_LookupFailureDegrades ==
    \A i \in Checks :
        LET c == calls[i] IN
        /\ LookupFailed(i) =>
             /\ c.id = c.asset_id
             /\ c.path = OwnPath(i)
             /\ c.probes.under = "-"
             /\ c.pc \in {"query", "spawn", "done"}
             /\ \A t \in tasks :
                  t.by = i => /\ t.asset_id = c.asset_id
                              /\ t.path = OwnPath(i)
                              /\ t.registered
             /\ Finished(i) => /\ Status(i) = ACCEPTED
                               /\ c.spawned <=> c.inserted
        /\ (Finished(i) /\ Status(i) = INTERNAL_SERVER_ERROR) =>
             \/ Forced(i) /\ Settled(i) = "nonempty" /\ c.removed = "-"
             \/ Settled(i) \in {"fresh", "stale"} /\ c.cand # "own"

\* X has the underlying token Y, the lookup failed, and the call spawned
\* the query of X into X's own path and answered ACCEPTED.
C16_Witness ==
    \E i \in Checks :
        /\ globaldb.underlying["X"] = Some("Y")
        /\ Finished(i)
        /\ calls[i].cand = "final"
        /\ Status(i) = ACCEPTED
        /\ calls[i].inserted /\ calls[i].spawned
        /\ \E t \in tasks : t.by = i /\ t.asset_id = "X" /\ t.path = "X"

\* C17: a check_icon call never waits for a task: with only the handlers
\* scheduled every call that was entered returns, a call that spawned a
\* task has answered ACCEPTED, and nothing a task does afterwards changes
\* what a call has answered.
C17_FireAndForget ==
    /\ \A i \in Procs : (calls[i].pc # "idle") ~> Finished(i)
    /\ [](\A i \in Checks :
            (Finished(i) /\ calls[i].spawned) => Status(i) = ACCEPTED)
    /\ [][\A i \in Procs : Finished(i) => calls'[i] = calls[i]]_vars

\* A call has answered ACCEPTED while the task it spawned is still
\* querying and nothing has been written to the path yet.
C17_Witness ==
    \E i \in Checks :
        /\ Finished(i)
        /\ calls[i].spawned
        /\ Status(i) = ACCEPTED
        /\ files[calls[i].path] = NoFile
        /\ \E t \in tasks : t.by = i /\ t.pc = "query"

C19_UnforcedNeverDeletesContent ==
    \A i \in Checks : ~Forced(i) => calls[i].removed # "nonempty"

\* C20: every task that exists, querying or about to remove its name, has
\* the task name of its asset in active_tasks: a query never runs without
\* its name and nobody but the task itself takes the name away.
C20_EveryTaskRegistered ==
    \A t \in tasks : task_name(t.asset_id) \in active_tasks
====
